---- MODULE Spec2Model ----
(***************************************************************************)
(* Model of the Life engine of Yoni_Ifrah_ConwaysGameOfLife.py: the padded *)
(* board (live, in_bounds, neighbours), the dirty set needs_update, and    *)
(* the operations Life.__init__, Life.cell, Life.set, Life.update and      *)
(* Life.paste.  Python lists are functions over 0..n-1; a list access      *)
(* follows Python's rule (a negative index i denotes slot n+i, an index    *)
(* outside -n..n-1 raises IndexError).                                     *)
(***************************************************************************)
EXTENDS Integers, Sequences, FiniteSets, TLC

VARIABLES
    width, height,   \* the board's size
    live,            \* self.live
    in_bounds,       \* self.in_bounds
    neighbours,      \* self.neighbours
    needs_update,    \* self.needs_update
    raised,          \* the exception the last call ended with, or "none"
    op,              \* the last call made
    calls,           \* the number of calls counted so far
    loop             \* PygameLife.run: where it is, its locals, cell_size

vars == <<width, height, live, in_bounds, neighbours, needs_update, raised, op,
          calls, loop>>

(* ---------------------------- bounds ----------------------------------- *)
MaxW == 3          \* boards are 1..MaxW wide
MaxH == 3          \* and 1..MaxH high
MaxSteps == 2      \* update(steps) is called with steps in 0..MaxSteps
MaxCalls == 3      \* calls in a run of the whole API
MaxPasteLen == 2   \* characters of a pasted text
MaxOrigin == 2     \* a paste origin lies at most this far outside the board
NegDim == 4        \* the constructor is tried on sizes from -NegDim on
PatW == 20         \* the board the patterns are pasted on is PatW wide
PatH == 20         \* and PatH high
PatAt == 5         \* a pattern's origin is at PatAt..PatAt+PatSpread
PatSpread == 2     \* in both directions
MaxGens == 10      \* generations a pasted pattern is followed for
RunW == 2          \* run() is followed on boards 1..RunW wide
RunH == 2          \* and 1..RunH high
MaxCellSize == 2   \* with cell_size in 1..MaxCellSize

(* ------------------------ Python list access --------------------------- *)
\* len([x] * cells): a non-positive repeat count gives the empty list
ListLen(w, h) == IF (w + 2) * (h + 2) > 0 THEN (w + 2) * (h + 2) ELSE 0

\* lst[i] is defined for -n <= i < n
ValidIndex(i, n) == (0 - n) <= i /\ i < n

\* the slot lst[i] denotes
Slot(i, n) == IF i < 0 THEN n + i ELSE i

(* --------------------------- Life.__init__ ----------------------------- *)
\* RowLoop with the first loop one iteration short, range(width + 1)
RECURSIVE RowLoopShort(_, _)
RowLoopShort(i, w) ==
    IF i >= w + 1 THEN << >> ELSE <<i, 0 - i>> \o RowLoopShort(i + 1, w)

\* the indices assigned False by "for i in range(width + 2)", in order
RECURSIVE RowLoop(_, _)
RowLoop(i, w) ==
    IF i >= w + 2 THEN << >> ELSE <<i, 0 - i>> \o RowLoop(i + 1, w)

\* the indices assigned False by "for j in range(height)", in order
RECURSIVE ColLoop(_, _, _)
ColLoop(j, w, h) ==
    IF j >= h THEN << >>
    ELSE <<(j + 1) * (w + 2) - 1, (j + 1) * (w + 2)>> \o ColLoop(j + 1, w, h)

\* run the assignments lst[idx] = False one after the other; stop at IndexError
RECURSIVE ClearAll(_, _, _)
ClearAll(r, idxs, n) ==
    IF idxs = << >> \/ r.raised /= "none" THEN r
    ELSE IF ~ValidIndex(Head(idxs), n)
         THEN [r EXCEPT !.raised = "IndexError"]
         ELSE ClearAll([r EXCEPT !.in_bounds[Slot(Head(idxs), n)] = FALSE],
                       Tail(idxs), n)

\* the constructor: the three lists, then the two border loops
New(w, h) ==
    LET n == ListLen(w, h)
        r0 == [raised |-> "none", in_bounds |-> [s \in 0..(n - 1) |-> TRUE]]
        r1 == ClearAll(r0, RowLoop(0, w) \o ColLoop(0, w, h), n)
    IN  [raised       |-> r1.raised,
         live         |-> [s \in 0..(n - 1) |-> FALSE],
         in_bounds    |-> r1.in_bounds,
         neighbours   |-> [s \in 0..(n - 1) |-> 0],
         needs_update |-> {}]

\* neighbourhood with the offset of (1, 1) taken for that of (1, 0)
neighbourhoodSkewed(w) ==
    << (0 - 1) * (w + 2) - 1, 0 - 1, (w + 2) - 1,
       (0 - 1) * (w + 2),              (w + 2),
       (0 - 1) * (w + 2) + 1, 1,     1 >>

\* product((-1, 0, 1), repeat=2) yields (x, y) lexicographically; (0, 0) is skipped
neighbourhood(w) ==
    << (0 - 1) * (w + 2) - 1, 0 - 1, (w + 2) - 1,
       (0 - 1) * (w + 2),              (w + 2),
       (0 - 1) * (w + 2) + 1, 1,     (w + 2) + 1 >>

(* ----------------------------- Life.cell ------------------------------- *)
\* cell with rows of width + 1 slots
cellNarrow(x, y) == (width + 1) * (y + 1) + x + 1

\* the storage index of the logical cell (x, y)
cell(x, y) == (width + 2) * (y + 1) + x + 1

(* ------------------------------ Life.set ------------------------------- *)
\* the engine's mutable part as a record
Engine == [live |-> live, neighbours |-> neighbours,
           needs_update |-> needs_update, raised |-> "none"]

Cells == ListLen(width, height)

\* AdjustFrom without the neighbour joining needs_update
RECURSIVE AdjustFromUnmarked(_, _, _, _)
AdjustFromUnmarked(e, p, adjust, k) ==
    IF k > 8 THEN e
    ELSE LET n == p + neighbourhood(width)[k] IN
         IF ~ValidIndex(n, Cells) THEN [e EXCEPT !.raised = "IndexError"]
         ELSE IF in_bounds[Slot(n, Cells)]
              THEN AdjustFromUnmarked([e EXCEPT
                                         !.neighbours[Slot(n, Cells)] = @ + adjust],
                                      p, adjust, k + 1)
              ELSE AdjustFromUnmarked(e, p, adjust, k + 1)

\* the loop "for n in self.neighbourhood" from offset number k on
RECURSIVE AdjustFrom(_, _, _, _)
AdjustFrom(e, p, adjust, k) ==
    IF k > 8 THEN e
    ELSE LET n == p + neighbourhood(width)[k] IN
         IF ~ValidIndex(n, Cells) THEN [e EXCEPT !.raised = "IndexError"]
         ELSE IF in_bounds[Slot(n, Cells)]
              THEN AdjustFrom([e EXCEPT
                                 !.neighbours[Slot(n, Cells)] = @ + adjust,
                                 !.needs_update = @ \cup {n}],
                              p, adjust, k + 1)
              ELSE AdjustFrom(e, p, adjust, k + 1)

\* set without the comparison of value with live[p]
setUncompared(e, p, value) ==
    IF e.raised /= "none" THEN e
    ELSE IF ~ValidIndex(p, Cells) THEN [e EXCEPT !.raised = "IndexError"]
    ELSE IF in_bounds[Slot(p, Cells)]
         THEN AdjustFrom([e EXCEPT !.live[Slot(p, Cells)] = value,
                                   !.needs_update = @ \cup {p}],
                         p, IF value THEN 1 ELSE 0 - 1, 1)
         ELSE e

\* if value != self.live[p] and self.in_bounds[p]: ...
set(e, p, value) ==
    IF e.raised /= "none" THEN e
    ELSE IF ~ValidIndex(p, Cells) THEN [e EXCEPT !.raised = "IndexError"]
    ELSE IF value /= e.live[Slot(p, Cells)] /\ in_bounds[Slot(p, Cells)]
         THEN AdjustFrom([e EXCEPT !.live[Slot(p, Cells)] = value,
                                   !.needs_update = @ \cup {p}],
                         p, IF value THEN 1 ELSE 0 - 1, 1)
         ELSE e

(* ----------------------------- Life.update ----------------------------- *)
\* u: the triples (p, live[p], neighbours[p]) of the cells of needs_update
Snapshot(e) ==
    { [p |-> p, live |-> e.live[Slot(p, Cells)],
       neighbours |-> e.neighbours[Slot(p, Cells)]] : p \in e.needs_update }

\* Rule with a live cell of three live neighbours dying, 2 <= neighbours < 3
RuleThreeDies(t) ==
    IF t.live /\ ~(2 <= t.neighbours /\ t.neighbours < 3) THEN "die"
    ELSE IF ~t.live /\ t.neighbours = 3 THEN "born"
    ELSE "keep"

\* Rule with a live cell of four live neighbours surviving
RuleFourSurvives(t) ==
    IF t.live /\ ~(2 <= t.neighbours /\ t.neighbours <= 4) THEN "die"
    ELSE IF ~t.live /\ t.neighbours = 3 THEN "born"
    ELSE "keep"

\* what the loop body decides for one triple
Rule(t) ==
    IF t.live /\ ~(2 <= t.neighbours /\ t.neighbours <= 3) THEN "die"
    ELSE IF ~t.live /\ t.neighbours = 3 THEN "born"
    ELSE "keep"

\* the loop body for one triple
Apply(e, t) ==
    IF Rule(t) = "die" THEN set(e, t.p, FALSE)
    ELSE IF Rule(t) = "born" THEN set(e, t.p, TRUE)
    ELSE e

\* "for p, live, neighbours in u" in every iteration order of the set: front
\* holds the engines reached so far with the triples still to come.  A triple
\* the body keeps leaves the engine as it is wherever it comes in the order,
\* so only the other triples are ordered.  An IndexError ends the loop.
RECURSIVE Loop(_)
Loop(front) ==
    IF \A f \in front : f.todo = {} \/ f.e.raised /= "none"
    THEN { f.e : f \in front }
    ELSE Loop({ f \in front : f.todo = {} \/ f.e.raised /= "none" }
              \cup UNION { { [e |-> Apply(f.e, t), todo |-> f.todo \ {t}]
                             : t \in f.todo }
                           : f \in { g \in front :
                                       g.todo /= {} /\ g.e.raised = "none" } })

\* Generation without "self.needs_update = set()"
GenerationUncleared(e) ==
    IF e.raised /= "none" THEN {e}
    ELSE Loop({ [e    |-> e,
                 todo |-> { t \in Snapshot(e) : Rule(t) /= "keep" }] })

\* one pass of "for _ in range(steps)": snapshot, clear, apply
Generation(e) ==
    IF e.raised /= "none" THEN {e}
    ELSE Loop({ [e    |-> [e EXCEPT !.needs_update = {}],
                 todo |-> { t \in Snapshot(e) : Rule(t) /= "keep" }] })

\* the engines update(steps) can leave
RECURSIVE update(_, _)
update(es, steps) ==
    IF steps <= 0 THEN es
    ELSE update(UNION { Generation(e) : e \in es }, steps - 1)

(* ------------------------------ Life.paste ----------------------------- *)
Space == " "
Newline == "\n"
Whitespace == {Space, Newline}
Chars == {"o", ".", Space, Newline}

RECURSIVE lstrip(_)
lstrip(s) ==
    IF s /= << >> /\ Head(s) \in Whitespace THEN lstrip(Tail(s)) ELSE s

RECURSIVE rstrip(_)
rstrip(s) ==
    IF s /= << >> /\ s[Len(s)] \in Whitespace
    THEN rstrip(SubSeq(s, 1, Len(s) - 1)) ELSE s

\* str.strip()
strip(s) == rstrip(lstrip(s))

\* str.splitlines(): no line for the empty string, none after a final newline
RECURSIVE splitlines(_)
splitlines(s) ==
    IF s = << >> THEN << >>
    ELSE IF \E k \in 1..Len(s) : s[k] = Newline
         THEN LET k == CHOOSE i \in 1..Len(s) :
                          s[i] = Newline /\ \A m \in 1..(i - 1) : s[m] /= Newline
              IN  <<SubSeq(s, 1, k - 1)>> \o splitlines(SubSeq(s, k + 1, Len(s)))
         ELSE <<s>>

\* "for i, char in enumerate(line.strip())" from character number i (0-based) on
RECURSIVE PasteLine(_, _, _, _, _)
PasteLine(e, line, i, x, yj) ==
    IF i >= Len(line) THEN e
    ELSE PasteLine(set(e, cell(x + i, yj), line[i + 1] = "o"), line, i + 1, x, yj)

\* "for j, line in enumerate(s.strip().splitlines())" from line number j on
RECURSIVE PasteLines(_, _, _, _, _)
PasteLines(e, lines, j, x, y) ==
    IF j >= Len(lines) THEN e
    ELSE PasteLines(PasteLine(e, strip(lines[j + 1]), 0, x, y + j),
                    lines, j + 1, x, y)

paste(e, s, x, y) == PasteLines(e, splitlines(strip(s)), 0, x, y)

(* ------------------------- the state machine --------------------------- *)
\* run() has not been called
NoLoop == [pc |-> "off"]

Install(e) ==
    /\ live' = e.live
    /\ neighbours' = e.neighbours
    /\ needs_update' = e.needs_update
    /\ raised' = e.raised
    /\ UNCHANGED <<width, height, in_bounds>>

\* the state after Life(width, height) for a board of positive size
Init ==
    /\ width \in 1..MaxW
    /\ height \in 1..MaxH
    /\ live = New(width, height).live
    /\ in_bounds = New(width, height).in_bounds
    /\ neighbours = New(width, height).neighbours
    /\ needs_update = New(width, height).needs_update
    /\ raised = "none"
    /\ op = [name |-> "new"]
    /\ calls = 0
    /\ loop = NoLoop

\* the storage slots of the logical cells
Interior == { cell(x, y) : x \in 0..(width - 1), y \in 0..(height - 1) }

\* set on the slot of a logical cell, as PygameLife.run does through screen_cell
SetInterior ==
    \E p \in Interior, value \in BOOLEAN :
        /\ Install(set(Engine, p, value))
        /\ op' = [name |-> "set"]

\* set on any slot of the padded board
SetAny ==
    \E p \in 0..(Cells - 1), value \in BOOLEAN :
        /\ Install(set(Engine, p, value))
        /\ op' = [name |-> "set"]

Update ==
    \E steps \in 0..MaxSteps :
        \E e \in update({Engine}, steps) :
            /\ Install(e)
            /\ op' = [name |-> "update", steps |-> steps,
                      was |-> live, dirty |-> needs_update]

\* the texts of at most n characters
RECURSIVE Strings(_)
Strings(n) ==
    IF n = 0 THEN { << >> }
    ELSE Strings(n - 1)
         \cup { Append(s, c) : s \in { t \in Strings(n - 1) : Len(t) = n - 1 },
                               c \in Chars }

Origins ==
    ((0 - MaxOrigin)..(width + MaxOrigin))
        \X ((0 - MaxOrigin)..(height + MaxOrigin))

\* paste of any short text at any origin on or near the board
Paste ==
    /\ \E s \in Strings(MaxPasteLen), o \in Origins :
            /\ Install(paste(Engine, s, o[1], o[2]))
            /\ op' = [name |-> "paste"]

\* set on logical cells and update, in runs of any length
NextInterior ==
    \/ SetInterior /\ UNCHANGED <<calls, loop>>
    \/ Update /\ UNCHANGED <<calls, loop>>

SpecInterior == Init /\ [][NextInterior]_vars

\* the whole API on any storage slot, in runs of at most MaxCalls calls
Next ==
    \/ calls < MaxCalls /\ SetAny /\ calls' = calls + 1 /\ UNCHANGED loop
    \/ calls < MaxCalls /\ Update /\ calls' = calls + 1 /\ UNCHANGED loop
    \/ calls < MaxCalls /\ Paste /\ calls' = calls + 1 /\ UNCHANGED loop

Spec == Init /\ [][Next]_vars

\* the constructor on sizes of either sign
InitNew ==
    /\ width \in (0 - NegDim)..MaxW
    /\ height \in (0 - NegDim)..MaxH
    /\ live = << >>
    /\ in_bounds = << >>
    /\ neighbours = << >>
    /\ needs_update = {}
    /\ raised = "none"
    /\ op = [name |-> "start"]
    /\ calls = 0
    /\ loop = NoLoop

\* Life(width, height): an engine, or the exception and no engine
Construct ==
    /\ op.name = "start"
    /\ raised' = New(width, height).raised
    /\ IF New(width, height).raised = "none"
       THEN /\ live' = New(width, height).live
            /\ in_bounds' = New(width, height).in_bounds
            /\ neighbours' = New(width, height).neighbours
            /\ needs_update' = New(width, height).needs_update
       ELSE UNCHANGED <<live, in_bounds, neighbours, needs_update>>
    /\ op' = [name |-> "new"]
    /\ UNCHANGED <<width, height, calls, loop>>

SpecNew == InitNew /\ [][Construct]_vars

(* ------------------- patterns pasted on a large board ------------------ *)
\* the 2x2 block, the row blinker and the glider, as texts for paste
PatternText(name) ==
    IF name = "block" THEN <<"o", "o", Newline, "o", "o">>
    ELSE IF name = "blinker" THEN <<"o", "o", "o">>
    ELSE <<".", "o", ".", Newline, ".", ".", "o", Newline, "o", "o", "o">>

PatternNames == {"block", "blinker", "glider"}

\* the state after Life(PatW, PatH)
InitPattern ==
    /\ width = PatW
    /\ height = PatH
    /\ live = New(width, height).live
    /\ in_bounds = New(width, height).in_bounds
    /\ neighbours = New(width, height).neighbours
    /\ needs_update = New(width, height).needs_update
    /\ raised = "none"
    /\ op = [name |-> "new"]
    /\ calls = 0
    /\ loop = NoLoop

\* paste of one of the patterns on the new board, as main() pastes its gun
PastePattern ==
    /\ op.name = "new"
    /\ \E name \in PatternNames :
       \E x \in PatAt..(PatAt + PatSpread), y \in PatAt..(PatAt + PatSpread) :
            /\ Install(paste(Engine, PatternText(name), x, y))
            /\ op' = [name |-> "pattern", pattern |-> name,
                      x |-> x, y |-> y, gen |-> 0]
    /\ UNCHANGED <<calls, loop>>

\* update(steps) on the pasted pattern, op.gen counting the generations
Advance ==
    /\ op.name = "pattern"
    /\ \E steps \in 1..MaxSteps :
            /\ op.gen + steps <= MaxGens
            /\ \E e \in update({Engine}, steps) :
                    /\ Install(e)
                    /\ op' = [op EXCEPT !.gen = @ + steps]
    /\ UNCHANGED <<calls, loop>>

NextPattern == PastePattern \/ Advance

SpecPattern == InitPattern /\ [][NextPattern]_vars

(* ---------------------------- PygameLife.run --------------------------- *)
\* x // c for c > 0, rounding towards minus infinity as Python does
FloorDiv(x, c) == IF x >= 0 THEN x \div c ELSE 0 - ((c - 1 - x) \div c)

\* the test of PygameLife.screen_cell: the pixel is on the board
OnScreen(pos) ==
    /\ 0 <= FloorDiv(pos[1], loop.cell_size)
    /\ FloorDiv(pos[1], loop.cell_size) < width
    /\ 0 <= FloorDiv(pos[2], loop.cell_size)
    /\ FloorDiv(pos[2], loop.cell_size) < height

\* PygameLife.screen_cell: the slot under a pixel, or None outside the board
screen_cell(pos) ==
    IF OnScreen(pos)
    THEN cell(FloorDiv(pos[1], loop.cell_size), FloorDiv(pos[2], loop.cell_size))
    ELSE "None"

\* the pixels of the window and one pixel further on every side
Pixels ==
    ((0 - 1)..(width * loop.cell_size)) \X ((0 - 1)..(height * loop.cell_size))

Keys == {"K_q", "K_ESCAPE", "K_p", "K_SPACE", "K_a"}

\* the events of pygame.event.get(); an event the loop reads no position of
\* is given the position (0, 0)
Events ==
    {[type |-> "QUIT"], [type |-> "KEYDOWN"]}
    \cup { [type |-> "KEYUP", key |-> k] : k \in Keys }
    \cup { [type |-> "MOUSEBUTTONDOWN", button |-> 1, pos |-> xy] : xy \in Pixels }
    \cup { [type |-> "MOUSEBUTTONDOWN", button |-> 3, pos |-> <<0, 0>>] }
    \cup { [type |-> "MOUSEMOTION", left |-> TRUE, pos |-> xy] : xy \in Pixels }
    \cup { [type |-> "MOUSEMOTION", left |-> FALSE, pos |-> <<0, 0>>] }

\* the locals of run() with the engine
Running == [e |-> Engine, paused |-> loop.paused, drawing |-> loop.drawing,
            running |-> loop.running]

\* self.live[p] and self.set(p, ...) with p = None: a list index must be an int
TypeError(r) == [r EXCEPT !.e.raised = "TypeError"]

\* the body of "for event in pygame.event.get()" for one event
Handle(r, ev) ==
    IF ev.type = "QUIT" \/ (ev.type = "KEYUP" /\ ev.key \in {"K_q", "K_ESCAPE"})
    THEN [r EXCEPT !.running = FALSE]
    ELSE IF ev.type = "KEYUP" /\ ev.key \in {"K_p", "K_SPACE"}
    THEN [r EXCEPT !.paused = ~r.paused]
    ELSE IF ev.type = "MOUSEBUTTONDOWN" /\ ev.button = 1
    THEN IF ~OnScreen(ev.pos)
         THEN TypeError([r EXCEPT !.paused = TRUE])
         ELSE [r EXCEPT !.paused = TRUE,
                        !.drawing = ~r.e.live[screen_cell(ev.pos)],
                        !.e = set(r.e, screen_cell(ev.pos),
                                  ~r.e.live[screen_cell(ev.pos)])]
    ELSE IF ev.type = "MOUSEMOTION" /\ ev.left
    THEN IF ~OnScreen(ev.pos)
         THEN TypeError([r EXCEPT !.paused = TRUE])
         ELSE [r EXCEPT !.paused = TRUE,
                        !.e = set(r.e, screen_cell(ev.pos), r.drawing)]
    ELSE r

\* AfterEvents with the update made whether paused or not
AfterEventsAlways(r) ==
    { [r EXCEPT !.e = e] : e \in update({r.e}, 1) }

\* "if paused: ... else: ... self.update()" after the events of an iteration
AfterEvents(r) ==
    IF r.paused THEN {r} ELSE { [r EXCEPT !.e = e] : e \in update({r.e}, 1) }

\* a left press or a left-button drag
LeftMouse(ev) ==
    \/ ev.type = "MOUSEBUTTONDOWN" /\ ev.button = 1
    \/ ev.type = "MOUSEMOTION" /\ ev.left

\* a P or SPACE key-up
PauseKey(ev) == ev.type = "KEYUP" /\ ev.key \in {"K_p", "K_SPACE"}

\* the new locals and engine of run(); an exception leaves run()
InstallRun(r, pc) ==
    /\ Install(r.e)
    /\ loop' = [loop EXCEPT !.paused = r.paused, !.drawing = r.drawing,
                            !.running = r.running,
                            !.pc = IF r.e.raised /= "none" THEN "raised" ELSE pc]
    /\ UNCHANGED calls

\* PygameLife(width, height, cell_size=...).run() up to its first
\* pygame.event.get()
InitRun ==
    /\ width \in 1..RunW
    /\ height \in 1..RunH
    /\ live = New(width, height).live
    /\ in_bounds = New(width, height).in_bounds
    /\ neighbours = New(width, height).neighbours
    /\ needs_update = New(width, height).needs_update
    /\ raised = "none"
    /\ op = [name |-> "run", held |-> FALSE]
    /\ calls = 0
    /\ \E c \in 1..MaxCellSize :
           loop = [pc |-> "events", cell_size |-> c, paused |-> FALSE,
                   drawing |-> FALSE, running |-> TRUE]

\* one event of the for loop; op.held: a left press or drag has been
\* processed and no P or SPACE key-up since
HandleEvent ==
    /\ loop.pc = "events"
    /\ \E ev \in Events :
            /\ InstallRun(Handle(Running, ev), "events")
            /\ op' = [name |-> "event",
                      held |-> IF LeftMouse(ev) THEN TRUE
                               ELSE IF PauseKey(ev) THEN FALSE ELSE op.held,
                      mouse |-> LeftMouse(ev), was |-> live]

\* the end of the for loop: the update unless paused, draw(), and the test of
\* "while running"
EndEvents ==
    /\ loop.pc = "events"
    /\ \E r \in AfterEvents(Running) :
            /\ InstallRun(r, IF loop.running THEN "events" ELSE "quit")
            /\ op' = [name |-> "tick", held |-> op.held,
                      updates |-> IF loop.paused THEN 0 ELSE 1,
                      dirty |-> needs_update, was |-> live]

NextRun == HandleEvent \/ EndEvents

SpecRun == InitRun /\ [][NextRun]_vars

(* ------------------- the board's geometry, for the claims -------------- *)
Row(s) == s \div (width + 2)
Col(s) == s % (width + 2)

\* the outermost ring of the padded board
Ring ==
    { s \in 0..(Cells - 1) :
        Row(s) = 0 \/ Row(s) = height + 1 \/ Col(s) = 0 \/ Col(s) = width + 1 }

\* the slots of the logical cells, by their position
Logical == (0..(Cells - 1)) \ Ring

\* the 8 storage slots surrounding a slot
Around(s) ==
    { t \in 0..(Cells - 1) :
        /\ t /= s
        /\ Row(t) - Row(s) \in {0 - 1, 0, 1}
        /\ Col(t) - Col(s) \in {0 - 1, 0, 1} }

LiveAround(L, s) == Cardinality({ t \in Around(s) : L[t] })

\* Conway's next generation of L, from scratch, everything off the grid dead
LifeStep(L) ==
    [ s \in 0..(Cells - 1) |->
        IF s \in Ring THEN FALSE
        ELSE LET n == Cardinality({ t \in Around(s) \cap Logical : L[t] })
             IN  IF L[s] THEN n = 2 \/ n = 3 ELSE n = 3 ]

AllDead(L) == \A s \in 0..(Cells - 1) : ~L[s]

LiveSet == { s \in 0..(Cells - 1) : live[s] }

(* ------------------------------- claims -------------------------------- *)

\* C1: after update(1) on a board reached by set on logical cells and update,
\* live is Conway's next generation of the live it started from, computed
\* from scratch over all logical cells with everything off the grid dead.
C1_UpdateIsLifeStep ==
    (op.name = "update" /\ op.steps = 1) => live = LifeStep(op.was)

\* C1 witness: an update(1) has turned the row blinker of the 3x3 board into
\* the column blinker (two births, two deaths, one survivor).
C1_Witness ==
    /\ op.name = "update" /\ op.steps = 1
    /\ width = 3 /\ height = 3
    /\ { s \in 0..(Cells - 1) : op.was[s] } = {cell(0, 1), cell(1, 1), cell(2, 1)}
    /\ LiveSet = {cell(1, 0), cell(1, 1), cell(1, 2)}

\* C2: in every state reached by set on any storage slot, paste and update,
\* neighbours of each logical cell is the number of live slots among the 8
\* storage slots around it.
C2_NeighbourCountExact ==
    \A i \in Logical : neighbours[i] = LiveAround(live, i)

\* C3: no slot of the outermost ring is ever live.
C3_BorderNeverLive ==
    \A b \in Ring : ~live[b]

\* C4: after construction with width >= 1 and height >= 1, in_bounds is false
\* on exactly the slots of the outermost ring.
C4_InBoundsIsInterior ==
    (op.name = "new" /\ raised = "none" /\ width >= 1 /\ height >= 1)
        => \A s \in 0..(Cells - 1) : in_bounds[s] <=> s \notin Ring

\* the rows of a pasted text as paste indexes them
Rows(s) == splitlines(strip(s))

\* the logical cells a text pasted at (x, y) marks 'o' inside the grid
Marked(s, x, y) ==
    { cell(x + i, y + j) :
        <<i, j>> \in { c \in (0..(Len(s) - 1)) \X (0..(Len(Rows(s)) - 1)) :
                         /\ c[1] < Len(strip(Rows(s)[c[2] + 1]))
                         /\ strip(Rows(s)[c[2] + 1])[c[1] + 1] = "o"
                         /\ 0 <= x + c[1] /\ x + c[1] < width
                         /\ 0 <= y + c[2] /\ y + c[2] < height } }

\* C5: paste on the empty board raises nothing and leaves live exactly the
\* logical cells (x + col, y + row) inside the grid whose character is 'o'.
C5_PasteClips ==
    op.name = "new" =>
        \A s \in Strings(MaxPasteLen), o \in Origins :
            /\ paste(Engine, s, o[1], o[2]).raised = "none"
            /\ { t \in 0..(Cells - 1) : paste(Engine, s, o[1], o[2]).live[t] }
                   = Marked(s, o[1], o[2])

\* C6: set on a slot of the outermost ring, with either value, raises nothing
\* and changes none of live, neighbours and needs_update.
C6_SetOnBorderIsNoOp ==
    \A b \in Ring, v \in BOOLEAN : set(Engine, b, v) = Engine

\* C7: update never ends with an exception.
C7_UpdateNeverRaises ==
    op.name = "update" => raised = "none"

\* the engine as a second call finds it
After(e) == [e EXCEPT !.raised = "none"]

\* C8: on every storage slot i and value v, a second set(i, v) right after
\* the first changes nothing, and set(i, live[i]) changes nothing.
C8_SetIdempotent ==
    \A i \in 0..(Cells - 1), v \in BOOLEAN :
        /\ set(After(set(Engine, i, v)), i, v) = After(set(Engine, i, v))
        /\ set(Engine, i, live[i]) = Engine

\* C8 witness: a set has made a cell live and its neighbours dirty.
C8_Witness ==
    /\ op.name = "set"
    /\ \E i \in Logical : live[i] /\ Around(i) \cap needs_update /= {}

\* C9 as stated: construction ends with InvalidDimension exactly when
\* width <= 0 or height <= 0.
C9_InvalidDimension ==
    op.name = "new" =>
        (raised = "InvalidDimension" <=> (width <= 0 \/ height <= 0))

\* the sizes on which one of the constructor's border loops leaves the lists
RaisesIndexError(w, h) ==
    \/ w <= 0 - 2 /\ h >= 1
    \/ w >= 0 - 1 /\ h <= 0 - 2

\* C9 as amended: construction succeeds for width >= 1 and height >= 1; there
\* is no check of the size: on the other sizes it raises IndexError, and
\* leaves no engine, exactly when (width <= -2 and height >= 1) or
\* (width >= -1 and height <= -2), and succeeds otherwise.
C9_ConstructionOutcome ==
    op.name = "new" =>
        /\ raised = (IF RaisesIndexError(width, height)
                     THEN "IndexError" ELSE "none")
        /\ (width >= 1 /\ height >= 1) => raised = "none"
        /\ raised /= "none" => live = << >> /\ in_bounds = << >>

\* C9 witness: a board of width 0 has been constructed with no error.
C9_Witness ==
    op.name = "new" /\ width = 0 /\ height >= 1 /\ raised = "none"
        /\ DOMAIN live = 0..(2 * (height + 2) - 1)

\* C10: an update of at least one generation on an all-dead board leaves
\* needs_update empty and the board all-dead, whatever was dirty before; and
\* on an all-dead board with nothing dirty every update changes nothing.
C10_Quiescence ==
    (op.name = "update" /\ AllDead(op.was)) =>
        /\ AllDead(live)
        /\ (op.steps >= 1 \/ op.dirty = {}) => needs_update = {}

\* C10 witness: an update has emptied a non-empty dirty set on a board whose
\* cells had all died.
C10_Witness ==
    /\ op.name = "update" /\ op.steps >= 1
    /\ AllDead(op.was) /\ op.dirty /= {}
    /\ AllDead(live) /\ needs_update = {}

\* the slots of the logical cells at the offsets ds from (x, y)
At(x, y, ds) == { cell(x + d[1], y + d[2]) : d \in ds }

\* C11: the 2x2 block pasted away from the border, at (5, 5) on the 20x20
\* board among others, is after every number of updates exactly the live set.
C11_BlockIsStill ==
    (op.name = "pattern" /\ op.pattern = "block") =>
        LiveSet = At(op.x, op.y, {<<0, 0>>, <<0, 1>>, <<1, 0>>, <<1, 1>>})

\* C11 witness: ten generations after the block was pasted at (5, 5) on the
\* 20x20 board those four cells are live.
C11_Witness ==
    /\ op.name = "pattern" /\ op.pattern = "block" /\ op.gen = 10
    /\ op.x = 5 /\ op.y = 5 /\ width = 20 /\ height = 20
    /\ LiveSet = {cell(5, 5), cell(5, 6), cell(6, 5), cell(6, 6)}

\* C12: the row blinker pasted at (x, y) is the column (x+1, y-1..y+1) after
\* an odd number of generations and the row (x..x+2, y) again after an even
\* number, no other cell being live.
C12_BlinkerPeriodTwo ==
    (op.name = "pattern" /\ op.pattern = "blinker") =>
        LiveSet = IF op.gen % 2 = 1
                  THEN At(op.x, op.y, {<<1, 0 - 1>>, <<1, 0>>, <<1, 1>>})
                  ELSE At(op.x, op.y, {<<0, 0>>, <<1, 0>>, <<2, 0>>})

\* C12 witness: one generation after the row (5,5),(6,5),(7,5) was pasted the
\* live cells are (6,4),(6,5),(6,6).
C12_Witness ==
    /\ op.name = "pattern" /\ op.pattern = "blinker" /\ op.gen = 1
    /\ op.x = 5 /\ op.y = 5
    /\ LiveSet = {cell(6, 4), cell(6, 5), cell(6, 6)}

\* the five cells of the glider, relative to its origin
GliderCells == {<<1, 0>>, <<2, 1>>, <<0, 2>>, <<1, 2>>, <<2, 2>>}

\* C13: four generations after the glider was pasted at (x, y) the live cells
\* are its five cells moved by (+1, +1), and again every four generations.
C13_GliderMoves ==
    (op.name = "pattern" /\ op.pattern = "glider" /\ op.gen % 4 = 0) =>
        LiveSet = At(op.x + op.gen \div 4, op.y + op.gen \div 4, GliderCells)

\* C13 witness: four generations after the paste at (5, 5) the glider is at
\* (6, 6).
C13_Witness ==
    /\ op.name = "pattern" /\ op.pattern = "glider" /\ op.gen = 4
    /\ op.x = 5 /\ op.y = 5
    /\ LiveSet = At(6, 6, GliderCells)

\* C14: in run(), the end of an iteration's event processing makes exactly one
\* update when paused is false and none when it is true; a P or SPACE key-up
\* negates paused and touches nothing else; after a left press or left-button
\* drag has been processed, no iteration advances the generation until a P or
\* SPACE key-up is processed; an event that is not a left press or drag, and
\* the end of a paused iteration, leave live as it was.
C14_PauseContract ==
    /\ op.name = "tick" =>
           IF loop.paused
           THEN op.updates = 0 /\ live = op.was /\ needs_update = op.dirty
           ELSE op.updates = 1 /\ live = LifeStep(op.was)
    /\ loop.pc = "events" =>
           \A k \in {"K_p", "K_SPACE"} :
               Handle(Running, [type |-> "KEYUP", key |-> k])
                   = [Running EXCEPT !.paused = ~loop.paused]
    /\ (op.name = "tick" /\ op.held) =>
           loop.paused /\ live = op.was /\ needs_update = op.dirty
    /\ (op.name = "event" /\ ~op.mouse) => live = op.was

\* C14 witness: an iteration has ended after a left press drew one cell on the
\* 2x2 board; the cell, which a generation would have killed, is still live.
C14_Witness ==
    /\ op.name = "tick" /\ op.held
    /\ width = 2 /\ height = 2
    /\ LiveSet = {cell(0, 0)}
    /\ LifeStep(live) /= live
    /\ needs_update /= {}

\* the slots at the 8 neighbourhood offsets from slot i that are flagged
\* in-bounds
FlaggedAround(i) ==
    { s \in 0..(Cells - 1) :
        /\ \E k \in 1..8 : s = i + neighbourhood(width)[k]
        /\ in_bounds[s] }

\* C15: an effective set(i, v), on a slot i flagged in-bounds with v different
\* from live[i], flips live[i] only, adds +1 (v true) or -1 (v false) to
\* neighbours of exactly the flagged slots at i's 8 neighbourhood offsets, and
\* adds exactly i and those slots to needs_update.
C15_SetEffect ==
    \A i \in 0..(Cells - 1), v \in BOOLEAN :
        (in_bounds[i] /\ v /= live[i]) =>
            /\ set(Engine, i, v).raised = "none"
            /\ set(Engine, i, v).live = [live EXCEPT ![i] = v]
            /\ set(Engine, i, v).neighbours =
                   [ s \in 0..(Cells - 1) |->
                       IF s \in FlaggedAround(i)
                       THEN neighbours[s] + (IF v THEN 1 ELSE 0 - 1)
                       ELSE neighbours[s] ]
            /\ set(Engine, i, v).needs_update =
                   needs_update \cup {i} \cup FlaggedAround(i)

\* what a generation leaves of the engine: live, neighbours, needs_update
Left(e) == <<e.live, e.neighbours, e.needs_update>>

\* C16: in every reachable state, one generation leaves the same live,
\* neighbours and needs_update for every order in which the snapshotted dirty
\* cells are processed.
C16_OrderIndependent ==
    Cardinality({ Left(e) : e \in update({Engine}, 1) }) = 1

\* C17: in every state reached by set on logical cells and update, no slot of
\* the outermost ring is in needs_update and neighbours of every ring slot
\* is 0.
C17_BorderExcluded ==
    \A b \in Ring : b \notin needs_update /\ neighbours[b] = 0

\* the engines k successive update(1) calls can leave; every call is made,
\* also the one after a call that raised
RECURSIVE Successive(_, _)
Successive(es, k) ==
    IF k = 0 THEN es
    ELSE Successive(UNION { update({After(e)}, 1) : e \in es }, k - 1)

\* C18: in every reachable state and for every n in 0..MaxSteps, update(n)
\* leaves the same live, neighbours and needs_update as n successive
\* update(1) calls, and update(0) changes nothing.
C18_BatchedStepping ==
    /\ \A n \in 0..MaxSteps :
           { Left(e) : e \in update({Engine}, n) }
               = { Left(e) : e \in Successive({Engine}, n) }
    /\ update({Engine}, 0) = {Engine}
    /\ (op.name = "update" /\ op.steps = 0) =>
           live = op.was /\ needs_update = op.dirty

\* the logical coordinates
Coords == (0..(width - 1)) \X (0..(height - 1))

\* C19: cell is a bijection between the logical coordinates 0 <= x < width,
\* 0 <= y < height and the storage slots off the outermost ring: distinct
\* coordinates get distinct indices, every index is inside the storage and
\* off the ring, and every slot off the ring is the index of a coordinate.
C19_CellBijection ==
    /\ \A c, d \in Coords : cell(c[1], c[2]) = cell(d[1], d[2]) => c = d
    /\ \A c \in Coords : cell(c[1], c[2]) \in (0..(Cells - 1)) \ Ring
    /\ \A s \in (0..(Cells - 1)) \ Ring :
           \E c \in Coords : cell(c[1], c[2]) = s

\* C19 witness: paste has made the last logical cell of the 3x3 board, and
\* only it, live through cell(2, 2), slot 18 of 25.
C19_Witness ==
    /\ op.name = "paste"
    /\ width = 3 /\ height = 3
    /\ raised = "none"
    /\ LiveSet = {cell(2, 2)}
    /\ cell(2, 2) = 18

\* C20: in every state reached by set on logical cells and update, every
\* logical cell that is not in needs_update is stable under the rule with its
\* current count: live with neighbours 2 or 3, or dead with neighbours not 3.
C20_CleanCellsStable ==
    \A i \in Logical \ needs_update :
        \/ live[i] /\ (neighbours[i] = 2 \/ neighbours[i] = 3)
        \/ ~live[i] /\ neighbours[i] /= 3

\* C20 witness: an update has left the 2x2 block on the 3x3 board with its
\* four cells live, each with 3 live neighbours, and out of needs_update.
C20_Witness ==
    /\ op.name = "update"
    /\ width = 3 /\ height = 3
    /\ LiveSet = {cell(0, 0), cell(1, 0), cell(0, 1), cell(1, 1)}
    /\ LiveSet \cap needs_update = {}
    /\ \A i \in LiveSet : neighbours[i] = 3

====
